---- MODULE Spec2Model ----
\* Model of module-tunnel-sink-new.c: a sink whose IO thread (thread_func)
\* renders audio and writes it to a remote stream, while the main loop runs
\* the libpulse context/stream callbacks and the module life cycle.
EXTENDS Integers, Sequences, FiniteSets, TLC

\* ---------------------------------------------------------------- bounds
\* largest writable size the transport reports
MaxWritable == 2
\* largest latency the transport reports
MaxLatency == 1
\* number of host requests and poll wake-ups the environment issues
MaxEvents == 2

\* ------------------------------------------------------------- constants
\* (size_t) -1, the error value of pa_stream_writable_size
SizeMax == MaxWritable + 1

ContextStates == {"UNCONNECTED", "CONNECTING", "AUTHORIZING", "SETTING_NAME",
                  "READY", "FAILED", "TERMINATED"}
StreamStates == {"NONE", "CREATED", "CORKED", "RUNNING", "FAILED", "TERMINATED"}
SinkStates == {"INIT", "IDLE", "RUNNING", "SUSPENDED", "UNLINKED"}
CrashOutcomes == {"aborted", "segfault"}
EmptyChunk == [memblock |-> FALSE, length |-> 0]
NoIteration == [evaluated |-> FALSE, c |-> FALSE, g |-> FALSE, o |-> FALSE,
                branch |-> FALSE, uncork |-> FALSE, cap |-> -1,
                render |-> 0, req |-> 0, held |-> 0, write |-> 0, wret |-> 0,
                wcount |-> 0,
                ctxLost |-> FALSE, strLost |-> FALSE]
NoMessage == [code |-> "NONE", data |-> 0, ret |-> 0, reply |-> -1,
              delegated |-> FALSE, fcode |-> "NONE", fdata |-> 0, host |-> 0,
              linked |-> FALSE, present |-> FALSE, lat |-> -1,
              returned |-> TRUE, failpath |-> FALSE, handler |-> FALSE]

VARIABLES
    connected,          \* u->connected
    context,            \* u->context: "NULL" or "context"
    ctxState,           \* pa_context_get_state(u->context)
    stream,             \* u->stream: "NULL" or "stream"
    strState,           \* pa_stream_get_state(u->stream)
    memchunk,           \* u->memchunk
    sinkState,          \* u->sink->thread_info.state
    rewind_requested,   \* u->sink->thread_info.rewind_requested
    pc,                 \* position of thread_func
    writeable,          \* local variable of thread_func
    inq,                \* u->thread_mq.inq
    outq,               \* u->thread_mq.outq: number of unload requests posted
    cbs,                \* state callbacks libpulse is about to invoke
    waiting,            \* the main loop is blocked in pa_asyncmsgq_send
    mpc,                \* position of the module life cycle (pa__done)
    events,             \* environment requests issued so far
    blocks,             \* memblocks referenced by the module
    it,                 \* what the current iteration of thread_func has done
    msg,                \* the last message taken from inq
    render_count,       \* calls of pa_sink_render
    positive_count,     \* iterations whose writable size was > 0
    wfail,              \* a call of pa_stream_write has reported a failure
    streams_created,    \* calls of pa_stream_new_with_proplist
    ctxLost,            \* the context state callback has seen FAILED/TERMINATED
    strLost             \* the stream state callback has seen FAILED/TERMINATED

vars == <<connected, context, ctxState, stream, strState, memchunk, sinkState,
          rewind_requested, pc, writeable, inq, outq, cbs, waiting, mpc,
          events, blocks, it, msg, render_count, positive_count, wfail,
          streams_created, ctxLost, strLost>>

core == <<connected, context, stream, memchunk>>
ctlVars == <<context, ctxState, cbs, mpc, events, streams_created, ctxLost, strLost>>
hist == <<it, msg, render_count, positive_count, wfail>>

\* ------------------------------------------------- library and host side
PA_STREAM_IS_GOOD(s) == s \in {"CREATED", "CORKED", "RUNNING"}
PA_CONTEXT_IS_GOOD(s) == s \notin {"FAILED", "TERMINATED"}
PA_SINK_IS_OPENED(s) == s \in {"RUNNING", "IDLE"}
PA_SINK_IS_LINKED(s) == s \in {"RUNNING", "IDLE", "SUSPENDED"}

\* 1 corked, 0 not corked, negative when the stream is not ready
pa_stream_is_corked(s) == IF s = "CORKED" THEN 1 ELSE IF s = "RUNNING" THEN 0 ELSE -1
\* pa_stream_cork(s, 0): only a ready, corked stream is resumed
pa_stream_cork(s) == IF s = "CORKED" THEN "RUNNING" ELSE s
\* the sizes pa_stream_writable_size may report
pa_stream_writable_size(s) == IF s = "RUNNING" THEN 0..MaxWritable ELSE {SizeMax}
\* the results pa_stream_write may report
pa_stream_write(s) == IF s = "RUNNING" THEN {0, -1} ELSE {-1}
\* the results pa_stream_get_latency may report: -1 is "not available"
pa_stream_get_latency(s) ==
    IF s \in {"CORKED", "RUNNING"} THEN (-1)..MaxLatency ELSE {-1}
\* the chunk lengths pa_sink_render may produce for a request
\* (a request of 0 bytes asks for the default block size)
pa_sink_render(length) ==
    IF length <= 0 THEN {MaxWritable}
    ELSE 1..(IF length > MaxWritable THEN MaxWritable ELSE length)

\* the host sink's default handler: result and effect on the sink
pa_sink_process_msg(code, data, st, rw) ==
    CASE code = "SET_STATE" -> [ret |-> 0, sinkState |-> data, rewind |-> rw]
      [] code = "SET_VOLUME" -> [ret |-> 0, sinkState |-> st, rewind |-> TRUE]
      [] OTHER -> [ret |-> -1, sinkState |-> st, rewind |-> rw]

\* pa_asyncmsgq_wait_for(q, code) takes and completes one message after the
\* other and returns after message m when m carries the code waited for
pa_asyncmsgq_wait_for(m, code) == m.code = code

\* what pa_asyncmsgq_wait_for does with a message before completing it: the
\* function is not part of the module; it either drops the message or
\* dispatches it to the handler of the message's object
WaitForModes == {"discard", "dispatch"}

Message(code, data, sync) == [code |-> code, data |-> data, sync |-> sync]

Crashed == pc \in CrashOutcomes

Init ==
    /\ connected = FALSE
    /\ context = "NULL"
    /\ ctxState = "UNCONNECTED"
    /\ stream = "NULL"
    /\ strState = "NONE"
    /\ memchunk = EmptyChunk
    /\ sinkState = "INIT"
    /\ rewind_requested = FALSE
    /\ pc = "unstarted"
    /\ writeable = 0
    /\ inq = <<>>
    /\ outq = 0
    /\ cbs = <<>>
    /\ waiting = FALSE
    /\ mpc = "new"
    /\ events = 0
    /\ blocks = 0
    /\ it = NoIteration
    /\ msg = NoMessage
    /\ render_count = 0
    /\ positive_count = 0
    /\ wfail = FALSE
    /\ streams_created = 0
    /\ ctxLost = FALSE
    /\ strLost = FALSE

\* ------------------------------------------------------------ thread_func
\* the gate without the test of the sink state
TransmitGateNoSink(c, s, k) == c /\ PA_STREAM_IS_GOOD(s)

\* line 119-121: the condition of the transmit branch
TransmitGate(c, s, k) == c /\ PA_STREAM_IS_GOOD(s) /\ PA_SINK_IS_OPENED(k)

\* line 129: render only into an empty chunk
NeedRender(chunk) == chunk.length <= 0

\* the test of the writable size left out
HasCapacityAlways(w) == TRUE

\* line 128: something can be written
HasCapacity(w) == w > 0

\* the chunk reset without dropping the reference to its memblock
ReleaseChunkNoUnref(chunk, n, ret) == [chunk |-> EmptyChunk, blocks |-> n]

\* the chunk released only after a successful write
ReleaseChunkOnSuccess(chunk, n, ret) ==
    IF ret = 0 THEN [chunk |-> EmptyChunk, blocks |-> n - 1]
    ELSE [chunk |-> chunk, blocks |-> n]

\* lines 144-146: release, unref and reset the chunk, whatever the write
\* returned; n is the number of memblocks the module references
ReleaseChunk(chunk, n, ret) == [chunk |-> EmptyChunk, blocks |-> n - 1]

\* lines 113-121: drain a rewind request and evaluate the gate
thread_iterate ==
    /\ pc = "loop"
    /\ rewind_requested' = FALSE
    /\ writeable' = 0
    /\ IF connected /\ stream = "NULL"
       THEN /\ pc' \in CrashOutcomes
            /\ it' = [NoIteration EXCEPT !.evaluated = TRUE, !.c = connected,
                          !.o = PA_SINK_IS_OPENED(sinkState),
                          !.ctxLost = ctxLost, !.strLost = strLost]
       ELSE /\ it' = [NoIteration EXCEPT !.evaluated = TRUE, !.c = connected,
                          !.g = (stream # "NULL" /\ PA_STREAM_IS_GOOD(strState)),
                          !.o = PA_SINK_IS_OPENED(sinkState),
                          !.branch = TransmitGate(connected, strState, sinkState),
                          !.ctxLost = ctxLost, !.strLost = strLost]
            /\ pc' = IF TransmitGate(connected, strState, sinkState)
                     THEN "branch" ELSE "poll"
    /\ UNCHANGED <<connected, stream, strState, memchunk, sinkState, inq, outq,
                   waiting, blocks, msg, render_count, positive_count, wfail>>
    /\ UNCHANGED ctlVars

\* the else of line 126 left out: the query follows the uncork
AfterCorkTestFallthrough(corked) == "query"

\* lines 124-127: where the iteration goes after the test of the cork state
AfterCorkTest(corked) == IF corked # 0 THEN "poll" ELSE "query"

\* lines 124-126: uncork a corked stream, otherwise go on to the query
thread_cork ==
    /\ pc = "branch"
    /\ IF stream = "NULL"
       THEN /\ pc' \in CrashOutcomes
            /\ UNCHANGED <<strState, it>>
       ELSE /\ pc' = AfterCorkTest(pa_stream_is_corked(strState))
            /\ IF pa_stream_is_corked(strState) # 0
               THEN /\ strState' = pa_stream_cork(strState)
                    /\ it' = [it EXCEPT !.uncork = TRUE]
               ELSE UNCHANGED <<strState, it>>
    /\ UNCHANGED <<connected, stream, memchunk, sinkState, rewind_requested,
                   writeable, inq, outq, waiting, blocks, msg, render_count,
                   positive_count, wfail>>
    /\ UNCHANGED ctlVars

\* a fixed block size requested instead of the writable size
RenderRequestFixed(w) == MaxWritable

\* line 130: the number of bytes requested from pa_sink_render
RenderRequest(w) == w

\* lines 127-132: query the writable size and render into the chunk
thread_render ==
    /\ pc = "query"
    /\ IF stream = "NULL"
       THEN /\ pc' \in CrashOutcomes
            /\ UNCHANGED <<writeable, memchunk, blocks, it, render_count,
                           positive_count>>
       ELSE \E w \in pa_stream_writable_size(strState) :
            /\ writeable' = w
            /\ positive_count' = IF w > 0 THEN positive_count + 1
                                 ELSE positive_count
            /\ IF HasCapacity(w)
               THEN /\ pc' = "write"
                    /\ IF NeedRender(memchunk)
                       THEN \E n \in pa_sink_render(RenderRequest(w)) :
                            /\ memchunk' = [memblock |-> TRUE, length |-> n]
                            /\ blocks' = blocks + 1
                            /\ render_count' = render_count + 1
                            /\ it' = [it EXCEPT !.cap = w, !.render = 1,
                                                !.req = RenderRequest(w),
                                                !.held = memchunk.length]
                       ELSE /\ it' = [it EXCEPT !.cap = w]
                            /\ UNCHANGED <<memchunk, blocks, render_count>>
               ELSE /\ pc' = "poll"
                    /\ it' = [it EXCEPT !.cap = w]
                    /\ UNCHANGED <<memchunk, blocks, render_count>>
    /\ UNCHANGED <<connected, stream, strState, sinkState, rewind_requested,
                   inq, outq, waiting, msg, wfail>>
    /\ UNCHANGED ctlVars

\* the write tried again in the same iteration after a failure
AfterWriteRetry(ret) == IF ret # 0 THEN "write" ELSE "poll"

\* lines 148-155: a failed write is logged and the thread goes on to the poll
AfterWrite(ret) == "poll"

\* the stream dropped by the IO thread after a failed write
StreamAfterWriteDrop(h, ret) == IF ret # 0 THEN "NULL" ELSE h

\* lines 137-151: the write leaves u->stream as it is
StreamAfterWrite(h, ret) == h

\* lines 136-151: write the whole chunk, then release and reset it
thread_write ==
    /\ pc = "write"
    /\ IF stream = "NULL"
       THEN /\ pc' \in CrashOutcomes
            /\ UNCHANGED <<memchunk, blocks, it, wfail, stream>>
       ELSE \E ret \in pa_stream_write(strState) :
            /\ it' = [it EXCEPT !.write = memchunk.length, !.wret = ret,
                                !.wcount = it.wcount + 1]
            /\ wfail' = (wfail \/ ret # 0)
            /\ memchunk' = ReleaseChunk(memchunk, blocks, ret).chunk
            /\ blocks' = ReleaseChunk(memchunk, blocks, ret).blocks
            /\ stream' = StreamAfterWrite(stream, ret)
            /\ pc' = AfterWrite(ret)
    /\ UNCHANGED <<connected, strState, sinkState, rewind_requested,
                   writeable, inq, outq, waiting, msg, render_count,
                   positive_count>>
    /\ UNCHANGED ctlVars

\* ---------------------------------------------------- sink_process_msg_cb
\* the handler with the return of the PASS_SOCKET case missing, so that the
\* message falls through to the host handler
sink_process_msg_cb_fallthrough(code, data, lat) ==
    LET keep == [crash |-> FALSE, ret |-> 0, reply |-> -1, delegated |-> FALSE,
                 fcode |-> "NONE", fdata |-> 0,
                 connected |-> connected, sinkState |-> sinkState,
                 rewind |-> rewind_requested]
        host == pa_sink_process_msg(code, data, sinkState, rewind_requested)
    IN  CASE code = "GET_LATENCY" ->
                 IF ~PA_SINK_IS_LINKED(sinkState) THEN [keep EXCEPT !.reply = 0]
                 ELSE IF stream = "NULL" THEN [keep EXCEPT !.crash = TRUE]
                 ELSE IF lat < 0 THEN [keep EXCEPT !.reply = 0]
                 ELSE [keep EXCEPT !.reply = lat]
          [] code = "PASS_SOCKET" ->
                 [keep EXCEPT !.connected = TRUE, !.ret = host.ret,
                              !.delegated = TRUE, !.fcode = code, !.fdata = data]
          [] OTHER -> [keep EXCEPT !.ret = host.ret, !.delegated = TRUE,
                                   !.fcode = code, !.fdata = data,
                                   !.sinkState = host.sinkState,
                                   !.rewind = host.rewind]

\* the handler with a RIP_SOCKET case that clears the connected flag
sink_process_msg_cb_rip(code, data, lat) ==
    LET keep == [crash |-> FALSE, ret |-> 0, reply |-> -1, delegated |-> FALSE,
                 fcode |-> "NONE", fdata |-> 0,
                 connected |-> connected, sinkState |-> sinkState,
                 rewind |-> rewind_requested]
        host == pa_sink_process_msg(code, data, sinkState, rewind_requested)
    IN  CASE code = "GET_LATENCY" ->
                 IF ~PA_SINK_IS_LINKED(sinkState) THEN [keep EXCEPT !.reply = 0]
                 ELSE IF stream = "NULL" THEN [keep EXCEPT !.crash = TRUE]
                 ELSE IF lat < 0 THEN [keep EXCEPT !.reply = 0]
                 ELSE [keep EXCEPT !.reply = lat]
          [] code = "PASS_SOCKET" -> [keep EXCEPT !.connected = TRUE]
          [] code = "RIP_SOCKET" -> [keep EXCEPT !.connected = FALSE]
          [] OTHER -> [keep EXCEPT !.ret = host.ret, !.delegated = TRUE,
                                   !.fcode = code, !.fdata = data,
                                   !.sinkState = host.sinkState,
                                   !.rewind = host.rewind]

\* lines 264-295: the result of the handler for a message; lat is what
\* pa_stream_get_latency reports (-1: not available)
sink_process_msg_cb(code, data, lat) ==
    LET keep == [crash |-> FALSE, ret |-> 0, reply |-> -1, delegated |-> FALSE,
                 fcode |-> "NONE", fdata |-> 0,
                 connected |-> connected, sinkState |-> sinkState,
                 rewind |-> rewind_requested]
        host == pa_sink_process_msg(code, data, sinkState, rewind_requested)
    IN  CASE code = "GET_LATENCY" ->
                 IF ~PA_SINK_IS_LINKED(sinkState) THEN [keep EXCEPT !.reply = 0]
                 ELSE IF stream = "NULL" THEN [keep EXCEPT !.crash = TRUE]
                 ELSE IF lat < 0 THEN [keep EXCEPT !.reply = 0]
                 ELSE [keep EXCEPT !.reply = lat]
          [] code = "PASS_SOCKET" -> [keep EXCEPT !.connected = TRUE]
          [] OTHER -> [keep EXCEPT !.ret = host.ret, !.delegated = TRUE,
                                   !.fcode = code, !.fdata = data,
                                   !.sinkState = host.sinkState,
                                   !.rewind = host.rewind]

\* the latency the transport reports to a handler call in the current state
LatencyReports == IF stream = "NULL" THEN {-1} ELSE pa_stream_get_latency(strState)

\* what is recorded about a dispatched message
Dispatched(m, r, lat) ==
    [code |-> m.code, data |-> m.data, ret |-> r.ret, reply |-> r.reply,
     delegated |-> r.delegated, fcode |-> r.fcode, fdata |-> r.fdata,
     host |-> pa_sink_process_msg(m.code, m.data, sinkState, rewind_requested).ret,
     linked |-> PA_SINK_IS_LINKED(sinkState), present |-> (stream # "NULL"),
     lat |-> lat, returned |-> ~r.crash, failpath |-> FALSE, handler |-> TRUE]

\* line 155, pa_rtpoll_run dispatching one message of inq: a shutdown message
\* makes the poll return 0 (finish), any other message goes to the handler
thread_poll_dispatch ==
    /\ pc = "poll"
    /\ inq # <<>>
    /\ LET m == Head(inq) IN
       IF m.code = "SHUTDOWN"
       THEN /\ pc' = "finish"
            /\ inq' = Tail(inq)
            /\ waiting' = (waiting /\ ~m.sync)
            /\ msg' = [NoMessage EXCEPT !.code = m.code]
            /\ UNCHANGED <<connected, sinkState, rewind_requested>>
       ELSE \E lat \in LatencyReports :
            LET r == sink_process_msg_cb(m.code, m.data, lat) IN
            /\ msg' = Dispatched(m, r, lat)
            /\ IF r.crash
               THEN /\ pc' \in CrashOutcomes
                    /\ inq' = Tail(inq)
                    /\ UNCHANGED <<connected, sinkState, rewind_requested,
                                   waiting>>
               ELSE /\ pc' = "loop"
                    /\ inq' = Tail(inq)
                    /\ waiting' = (waiting /\ ~m.sync)
                    /\ connected' = r.connected
                    /\ sinkState' = r.sinkState
                    /\ rewind_requested' = r.rewind
    /\ UNCHANGED <<stream, strState, memchunk, writeable, outq, blocks, it,
                   render_count, positive_count, wfail>>
    /\ UNCHANGED ctlVars

\* line 155, pa_rtpoll_run returning > 0 for a socket or timer event
thread_poll_wake ==
    /\ pc = "poll"
    /\ inq = <<>>
    /\ events < MaxEvents
    /\ events' = events + 1
    /\ pc' = "loop"
    /\ UNCHANGED <<connected, context, ctxState, stream, strState, memchunk,
                   sinkState, rewind_requested, writeable, inq, outq, cbs,
                   waiting, mpc, blocks, streams_created, ctxLost, strLost>>
    /\ UNCHANGED hist

\* the unload request not posted
PostUnloadNone(n) == n

\* line 165: one unload request is posted on outq, which holds n of them
PostUnload(n) == n + 1

\* lines 155-156 and 165: pa_rtpoll_run fails, the unload request is posted
thread_poll_fail ==
    /\ pc = "poll"
    /\ pc' = "fail_wait"
    /\ outq' = PostUnload(outq)
    /\ UNCHANGED <<connected, stream, strState, memchunk, sinkState,
                   rewind_requested, writeable, inq, waiting, blocks>>
    /\ UNCHANGED hist
    /\ UNCHANGED ctlVars

\* the failure path waiting for the wrong message
WaitedCodeWrong == "PASS_SOCKET"

\* line 166: the message code the failure path waits for
WaitedCode == "SHUTDOWN"

\* line 166, pa_asyncmsgq_wait_for: take one message of inq, drop it or
\* dispatch it to the handler of its object (the shutdown message has no
\* object), and complete it; stop after the message waited for. A handler
\* that aborts has taken the message and completes nothing
thread_wait_for ==
    /\ pc = "fail_wait"
    /\ inq # <<>>
    /\ inq' = Tail(inq)
    /\ LET m == Head(inq) IN
       \E mode \in WaitForModes :
       IF m.code = "SHUTDOWN" \/ mode = "discard"
       THEN /\ pc' = IF pa_asyncmsgq_wait_for(m, WaitedCode) THEN "finish"
                     ELSE "fail_wait"
            /\ waiting' = (waiting /\ ~m.sync)
            /\ msg' = [NoMessage EXCEPT !.code = m.code, !.data = m.data,
                                        !.failpath = TRUE]
            /\ UNCHANGED <<connected, sinkState, rewind_requested>>
       ELSE \E lat \in LatencyReports :
            LET r == sink_process_msg_cb(m.code, m.data, lat) IN
            /\ msg' = [Dispatched(m, r, lat) EXCEPT !.failpath = TRUE]
            /\ IF r.crash
               THEN /\ pc' \in CrashOutcomes
                    /\ UNCHANGED <<connected, sinkState, rewind_requested,
                                   waiting>>
               ELSE /\ pc' = IF pa_asyncmsgq_wait_for(m, WaitedCode)
                             THEN "finish" ELSE "fail_wait"
                    /\ waiting' = (waiting /\ ~m.sync)
                    /\ connected' = r.connected
                    /\ sinkState' = r.sinkState
                    /\ rewind_requested' = r.rewind
    /\ UNCHANGED <<stream, strState, memchunk, writeable, outq, blocks, it,
                   render_count, positive_count, wfail>>
    /\ UNCHANGED ctlVars

\* lines 168-170: the thread function returns
thread_finish ==
    /\ pc = "finish"
    /\ pc' = "done"
    /\ UNCHANGED <<connected, stream, strState, memchunk, sinkState,
                   rewind_requested, writeable, inq, outq, waiting, blocks>>
    /\ UNCHANGED hist
    /\ UNCHANGED ctlVars

thread_func ==
    \/ thread_iterate
    \/ thread_cork
    \/ thread_render
    \/ thread_write
    \/ thread_poll_dispatch
    \/ thread_poll_wake
    \/ thread_poll_fail
    \/ thread_wait_for
    \/ thread_finish

\* ------------------------------------------------------ main loop side
rtVars == <<connected, stream, strState, memchunk, sinkState, rewind_requested,
            pc, writeable, inq, outq, waiting, blocks>>

\* the main loop is free to run a module function or a library event
MainIdle == ~Crashed /\ ~waiting /\ cbs = <<>>

\* the TERMINATED case left out of the switch
StreamReleasedOnFailure(s) == s = "FAILED"

\* lines 178-189: the states in which the callback releases the stream
StreamReleased(s) == s \in {"FAILED", "TERMINATED"}

\* lines 172-193
stream_state_callback ==
    /\ ~Crashed
    /\ cbs # <<>> /\ Head(cbs) = "stream"
    /\ cbs' = Tail(cbs)
    /\ IF StreamReleased(strState)
       THEN /\ stream' = "NULL"
            /\ strLost' = TRUE
       ELSE UNCHANGED <<stream, strLost>>
    /\ UNCHANGED <<connected, context, ctxState, strState, memchunk, sinkState,
                   rewind_requested, pc, writeable, inq, outq, waiting, mpc,
                   events, blocks, streams_created, ctxLost>>
    /\ UNCHANGED hist

\* the message posted without a stream having been created
ContextReadyNoStream ==
    /\ inq' = Append(inq, Message("PASS_SOCKET", 0, FALSE))
    /\ UNCHANGED <<stream, strState, streams_created, context, connected, ctxLost>>

\* lines 208-245: the READY case
ContextReady ==
    /\ stream' = "stream"
    /\ strState' = "CREATED"
    /\ streams_created' = streams_created + 1
    /\ inq' = Append(inq, Message("PASS_SOCKET", 0, FALSE))
    /\ UNCHANGED <<context, connected, ctxLost>>

\* lines 246-258: the FAILED and TERMINATED cases
ContextLost ==
    /\ context' = "NULL"
    /\ connected' = FALSE
    /\ ctxLost' = TRUE
    /\ UNCHANGED <<stream, strState, streams_created, inq>>

\* lines 195-262
context_state_callback ==
    /\ ~Crashed
    /\ cbs # <<>> /\ Head(cbs) = "context"
    /\ cbs' = Tail(cbs)
    /\ CASE ctxState = "READY" -> ContextReady
         [] ctxState \in {"FAILED", "TERMINATED"} -> ContextLost
         [] OTHER -> UNCHANGED <<context, connected, stream, strState,
                                 streams_created, inq, ctxLost>>
    /\ UNCHANGED <<ctxState, memchunk, sinkState, rewind_requested, pc,
                   writeable, outq, waiting, mpc, events, blocks, strLost>>
    /\ UNCHANGED hist

\* lines 308-394: parse the arguments, create the sink and the context; when
\* one of these fails (lines 310, 317, 323, 349, 355, 389) nothing has been
\* started and the context is still NULL
pa__init_new ==
    /\ mpc = "new"
    /\ \E ok \in BOOLEAN :
       /\ mpc' = IF ok THEN "init" ELSE "fail_early"
       /\ context' = IF ok THEN "context" ELSE context
    /\ UNCHANGED <<ctxState, cbs, events, streams_created, ctxLost, strLost>>
    /\ UNCHANGED rtVars
    /\ UNCHANGED hist

\* lines 395-401: pa_context_connect starts connecting and notifies; when it
\* fails the connection is FAILED, the callback is notified of it and pa__init
\* goes to fail
pa__init_connect ==
    /\ mpc = "init"
    /\ \E ret \in {0, -1} :
       /\ mpc' = IF ret < 0 THEN "fail_late" ELSE "thread"
       /\ ctxState' = IF ret < 0 THEN "FAILED" ELSE "CONNECTING"
    /\ cbs' = <<"context">>
    /\ UNCHANGED <<context, events, streams_created, ctxLost, strLost>>
    /\ UNCHANGED rtVars
    /\ UNCHANGED hist

\* lines 403-406: pa_thread_new starts thread_func; when it fails pa__init
\* goes to fail without a thread
pa__init_thread ==
    /\ mpc = "thread"
    /\ cbs = <<>>
    /\ \E started \in BOOLEAN :
       /\ mpc' = IF started THEN "put" ELSE "fail_late"
       /\ pc' = IF started THEN "loop" ELSE pc
    /\ UNCHANGED <<connected, stream, strState, memchunk, sinkState,
                   rewind_requested, writeable, inq, outq, waiting, blocks>>
    /\ UNCHANGED <<context, ctxState, cbs, events, streams_created, ctxLost, strLost>>
    /\ UNCHANGED hist

\* the outcomes of the label fail for an exit taken at position p: after line
\* 392 proplist is a dangling pointer that is not NULL, and line 418 frees it
\* a second time, which may go unnoticed or end the process
FailOutcomes(p) ==
    IF p = "fail_late" THEN {"teardown"} \cup CrashOutcomes ELSE {"teardown"}

\* lines 413-420: the label fail frees the arguments and the proplist and
\* calls pa__done, where the sink is not linked and there is no thread
\* (lines 433-439 send nothing)
pa__init_fail ==
    /\ mpc \in {"fail_early", "fail_late"}
    /\ cbs = <<>>
    /\ mpc' \in FailOutcomes(mpc)
    /\ UNCHANGED <<context, ctxState, cbs, events, streams_created, ctxLost, strLost>>
    /\ UNCHANGED rtVars
    /\ UNCHANGED hist

\* a synchronous send on inq: the main loop waits for the reply
Send(code, data) ==
    /\ inq' = Append(inq, Message(code, data, TRUE))
    /\ waiting' = TRUE

\* line 408: pa_sink_put sets the sink state to idle through the IO thread
pa__init_put ==
    /\ mpc = "put"
    /\ MainIdle
    /\ mpc' = "run"
    /\ Send("SET_STATE", "IDLE")
    /\ UNCHANGED <<connected, stream, strState, memchunk, sinkState,
                   rewind_requested, pc, writeable, outq, blocks>>
    /\ UNCHANGED <<context, ctxState, cbs, events, streams_created, ctxLost, strLost>>
    /\ UNCHANGED hist

\* the host asks for a message of the sink to be handled by the IO thread
HostRequest ==
    /\ mpc = "run"
    /\ MainIdle
    /\ events < MaxEvents
    /\ events' = events + 1
    /\ \/ \E s \in {"IDLE", "RUNNING", "SUSPENDED"} : Send("SET_STATE", s)
       \/ Send("GET_LATENCY", 0)
       \/ /\ inq' = Append(inq, Message("SET_VOLUME", 0, FALSE))
          /\ UNCHANGED waiting
       \/ /\ inq' = Append(inq, Message("RIP_SOCKET", 0, FALSE))
          /\ UNCHANGED waiting
    /\ UNCHANGED <<connected, stream, strState, memchunk, sinkState,
                   rewind_requested, pc, writeable, outq, blocks>>
    /\ UNCHANGED <<context, ctxState, cbs, mpc, streams_created, ctxLost, strLost>>
    /\ UNCHANGED hist

\* the successor of a transient connection state
NextContextState(s) ==
    CASE s = "UNCONNECTED" -> "CONNECTING"
      [] s = "CONNECTING" -> "AUTHORIZING"
      [] s = "AUTHORIZING" -> "SETTING_NAME"
      [] s = "SETTING_NAME" -> "READY"
      [] OTHER -> s

\* libpulse moves the connection one state forward and notifies
ContextAdvance ==
    /\ mpc = "run"
    /\ MainIdle
    /\ context # "NULL"
    /\ ctxState \in {"CONNECTING", "AUTHORIZING", "SETTING_NAME"}
    /\ ctxState' = NextContextState(ctxState)
    /\ cbs' = <<"context">>
    /\ UNCHANGED <<context, mpc, events, streams_created, ctxLost, strLost>>
    /\ UNCHANGED rtVars
    /\ UNCHANGED hist

\* the connection fails or is terminated: libpulse sets the state, notifies
\* the connection callback and only then unlinks the connection
ContextBreak ==
    /\ mpc = "run"
    /\ MainIdle
    /\ context # "NULL"
    /\ PA_CONTEXT_IS_GOOD(ctxState)
    /\ \E st \in {"FAILED", "TERMINATED"} : ctxState' = st
    /\ cbs' = <<"context", "unlink">>
    /\ UNCHANGED <<connected, stream, strState, memchunk, sinkState,
                   rewind_requested, pc, writeable, inq, outq, waiting, blocks>>
    /\ UNCHANGED <<context, mpc, events, streams_created, ctxLost, strLost>>
    /\ UNCHANGED hist

\* libpulse unlinks a lost connection after its callback has run: a stream
\* of the connection that is still good gets the state of the connection
\* and its callback is notified
ContextUnlink ==
    /\ ~Crashed
    /\ cbs # <<>> /\ Head(cbs) = "unlink"
    /\ IF stream # "NULL" /\ PA_STREAM_IS_GOOD(strState)
       THEN /\ strState' = ctxState
            /\ cbs' = <<"stream">> \o Tail(cbs)
       ELSE /\ cbs' = Tail(cbs)
            /\ UNCHANGED strState
    /\ UNCHANGED <<connected, stream, memchunk, sinkState, rewind_requested, pc,
                   writeable, inq, outq, waiting, blocks>>
    /\ UNCHANGED <<context, ctxState, mpc, events, streams_created, ctxLost, strLost>>
    /\ UNCHANGED hist

\* the stream finishes its set-up: it is ready and corked (START_CORKED)
StreamReady ==
    /\ mpc = "run"
    /\ MainIdle
    /\ stream # "NULL"
    /\ strState = "CREATED"
    /\ strState' = "CORKED"
    /\ cbs' = <<"stream">>
    /\ UNCHANGED <<connected, stream, memchunk, sinkState, rewind_requested, pc,
                   writeable, inq, outq, waiting, blocks>>
    /\ UNCHANGED <<context, ctxState, mpc, events, streams_created, ctxLost, strLost>>
    /\ UNCHANGED hist

\* the stream fails or is terminated by the remote server
StreamBreak ==
    /\ mpc = "run"
    /\ MainIdle
    /\ stream # "NULL"
    /\ PA_STREAM_IS_GOOD(strState)
    /\ \E st \in {"FAILED", "TERMINATED"} : strState' = st
    /\ cbs' = <<"stream">>
    /\ UNCHANGED <<connected, stream, memchunk, sinkState, rewind_requested, pc,
                   writeable, inq, outq, waiting, blocks>>
    /\ UNCHANGED <<context, ctxState, mpc, events, streams_created, ctxLost, strLost>>
    /\ UNCHANGED hist

\* lines 433-434: pa_sink_unlink sets the sink state through the IO thread
pa__done_unlink ==
    /\ mpc = "run"
    /\ MainIdle
    /\ mpc' = "unlinked"
    /\ Send("SET_STATE", "UNLINKED")
    /\ UNCHANGED <<connected, stream, strState, memchunk, sinkState,
                   rewind_requested, pc, writeable, outq, blocks>>
    /\ UNCHANGED <<context, ctxState, cbs, events, streams_created, ctxLost, strLost>>
    /\ UNCHANGED hist

\* line 437: the shutdown message is sent and waited for
pa__done_shutdown ==
    /\ mpc = "unlinked"
    /\ MainIdle
    /\ mpc' = "shutdown"
    /\ Send("SHUTDOWN", 0)
    /\ UNCHANGED <<connected, stream, strState, memchunk, sinkState,
                   rewind_requested, pc, writeable, outq, blocks>>
    /\ UNCHANGED <<context, ctxState, cbs, events, streams_created, ctxLost, strLost>>
    /\ UNCHANGED hist

\* the thread not waited for
ThreadJoinedNoWait(p) == TRUE

\* line 438: pa_thread_free returns once thread_func has returned
ThreadJoined(p) == p = "done"

\* line 438: join the thread
pa__done_join ==
    /\ mpc = "shutdown"
    /\ MainIdle
    /\ ThreadJoined(pc)
    /\ mpc' = "joined"
    /\ UNCHANGED <<context, ctxState, cbs, events, streams_created, ctxLost, strLost>>
    /\ UNCHANGED rtVars
    /\ UNCHANGED hist

\* lines 441-458: free the queues, disconnect the stream and the connection
\* (their callbacks run), free the poller, the chunk and the sink; reached
\* after the join, or from pa__init's label fail when there is no thread
pa__done_free ==
    /\ mpc \in {"joined", "teardown"}
    /\ MainIdle
    /\ mpc' = "freed"
    /\ inq' = <<>>
    /\ stream' = "NULL"
    /\ strState' = IF stream # "NULL" /\ PA_STREAM_IS_GOOD(strState)
                   THEN "TERMINATED" ELSE strState
    /\ strLost' = (strLost \/ stream # "NULL")
    /\ context' = "NULL"
    /\ ctxState' = IF context # "NULL" /\ PA_CONTEXT_IS_GOOD(ctxState)
                   THEN "TERMINATED" ELSE ctxState
    /\ ctxLost' = (ctxLost \/ context # "NULL")
    /\ connected' = IF context # "NULL" THEN FALSE ELSE connected
    /\ blocks' = IF memchunk.memblock THEN blocks - 1 ELSE blocks
    /\ UNCHANGED <<memchunk, sinkState, rewind_requested, pc, writeable, outq,
                   waiting, cbs, events, streams_created>>
    /\ UNCHANGED hist

Next ==
    \/ thread_iterate
    \/ thread_cork
    \/ thread_render
    \/ thread_write
    \/ thread_poll_dispatch
    \/ thread_poll_wake
    \/ thread_poll_fail
    \/ thread_wait_for
    \/ thread_finish
    \/ stream_state_callback
    \/ context_state_callback
    \/ pa__init_new
    \/ pa__init_connect
    \/ pa__init_thread
    \/ pa__init_fail
    \/ pa__init_put
    \/ HostRequest
    \/ ContextAdvance
    \/ ContextBreak
    \/ ContextUnlink
    \/ StreamReady
    \/ StreamBreak
    \/ pa__done_unlink
    \/ pa__done_shutdown
    \/ pa__done_join
    \/ pa__done_free

Spec == Init /\ [][Next]_vars

\* the steps thread_func takes by itself once it is scheduled: everything but
\* the return of pa_rtpoll_run for an event or an error, which the thread
\* waits for at line 155 for as long as none arrives
thread_run ==
    \/ thread_iterate
    \/ thread_cork
    \/ thread_render
    \/ thread_write
    \/ thread_poll_dispatch
    \/ thread_wait_for
    \/ thread_finish

\* the IO thread is scheduled whenever it can run, and so is the main loop;
\* a poll with nothing to dispatch may block for ever
FairSpec == Spec /\ WF_vars(thread_run) /\ WF_vars(stream_state_callback)
                 /\ WF_vars(context_state_callback) /\ WF_vars(ContextUnlink)

TypeOK ==
    /\ connected \in BOOLEAN
    /\ context \in {"NULL", "context"}
    /\ ctxState \in ContextStates
    /\ stream \in {"NULL", "stream"}
    /\ strState \in StreamStates
    /\ memchunk \in [memblock : BOOLEAN, length : 0..MaxWritable]
    /\ sinkState \in SinkStates
    /\ pc \in {"unstarted", "loop", "branch", "query", "write", "poll",
               "fail_wait", "finish", "done"} \cup CrashOutcomes
    /\ writeable \in 0..SizeMax
    /\ outq \in 0..1
    /\ mpc \in {"new", "init", "thread", "put", "run", "unlinked", "shutdown",
                "joined", "freed", "fail_early", "fail_late", "teardown"}
               \cup CrashOutcomes

\* ------------------------------------------------------------ properties
\* a message has been dispatched to the handler and the handler has returned
Handled == msg.code \notin {"NONE", "SHUTDOWN"} /\ msg.handler /\ msg.returned

\* the step of the failure path that takes a message from inq
WaitStep == pc = "fail_wait" /\ inq # <<>> /\ inq' = Tail(inq)

\* the step of the poll that dispatches a message to the handler
DispatchStep == pc = "poll" /\ pc' = "loop" /\ inq # <<>> /\ inq' = Tail(inq)

\* C1: pa_sink_render is called only while the chunk is empty, and the module
\* never references more than one rendered memblock
C1_AtMostOneCell ==
    /\ blocks <= 1
    /\ (it.render > 0 => it.held = 0)
    /\ it.render <= 1

C1_Witness == render_count >= 2 /\ pc = "write" /\ memchunk.length > 0 /\ blocks = 1

\* C2: an iteration whose writable size is 0 neither renders nor writes, and
\* there are never more render calls than iterations with a writable size > 0
C2_Backpressure ==
    /\ (it.cap = 0 => it.render = 0 /\ it.write = 0 /\ ~memchunk.memblock)
    /\ render_count <= positive_count

C2_Witness == it.cap = 0 /\ pc = "poll" /\ render_count >= 1

\* C3: after every write, failed or not, the chunk is released and reset
\* before the poll: it is empty at the start of an iteration and in the poll
C3_WriteThenRelease ==
    /\ (pc \in {"loop", "poll", "fail_wait", "finish", "done"} =>
            memchunk = EmptyChunk /\ blocks = 0)
    /\ (it.write > 0 => memchunk = EmptyChunk)

C3_Witness == pc = "poll" /\ it.write > 0 /\ it.wret # 0 /\ strState = "RUNNING"

\* C4: the transmit branch is entered exactly when connected is set, the
\* stream state is good and the sink is opened; otherwise the iteration does
\* not uncork, query, render or write
C4_StateGate ==
    /\ (it.evaluated =>
            (it.branch <=> (it.c /\ it.g /\ it.o)))
    /\ (~it.branch =>
            ~it.uncork /\ it.cap = -1 /\ it.render = 0 /\ it.write = 0)
    /\ (pc \in {"branch", "query", "write"} => it.branch)

C4_Witness == it.evaluated /\ it.c /\ it.g /\ ~it.o /\ pc = "poll"

C6_ShutdownLiveness == (mpc = "shutdown") ~> (pc = "done")

\* C7: GET_LATENCY always returns 0 to its caller, with a reply of 0 when the
\* sink is not linked or the stream has no latency to report, and the reported
\* latency otherwise, and is never passed to the host handler
C7_LatencyFallback ==
    (msg.code = "GET_LATENCY" /\ ~msg.failpath) =>
        /\ msg.returned
        /\ msg.ret = 0
        /\ ~msg.delegated
        /\ msg.reply = IF msg.linked /\ msg.present /\ msg.lat >= 0
                       THEN msg.lat ELSE 0

\* C8: once the stream callback has released the stream, the handle is NULL,
\* no stream is created again, and every later iteration runs normally
\* without uncorking, rendering or writing
C8_StreamLost ==
    strLost =>
        /\ stream = "NULL"
        /\ streams_created <= 1
        /\ (it.strLost => ~Crashed /\ ~it.uncork /\ it.render = 0 /\ it.write = 0)

\* C9: once the context callback has seen FAILED or TERMINATED, the context
\* handle is NULL, connected stays false and no later iteration writes
C9_ContextLost ==
    ctxLost =>
        /\ context = "NULL"
        /\ ~connected
        /\ (it.ctxLost => it.write = 0)

\* C10: only GET_LATENCY and PASS_SOCKET are handled by the module; every
\* other message goes to the host handler with its code and data, the host's
\* result is returned, and the module's own state is left alone
C10_Delegation ==
    /\ [](Handled =>
            /\ msg.delegated <=> msg.code \notin {"GET_LATENCY", "PASS_SOCKET"}
            /\ msg.delegated => /\ msg.fcode = msg.code
                                /\ msg.fdata = msg.data
                                /\ msg.ret = msg.host
            /\ ~msg.delegated => msg.fcode = "NONE")
    /\ [][((DispatchStep \/ WaitStep)
              /\ Head(inq).code \notin {"GET_LATENCY", "PASS_SOCKET"}) =>
            UNCHANGED <<connected, context, stream, strState, memchunk, blocks>>]_vars

C10_Witness ==
    /\ Handled
    /\ msg.code = "RIP_SOCKET"
    /\ msg.delegated
    /\ msg.ret = -1
    /\ connected

\* a step taken by the IO thread
ThreadStep == (pc # "unstarted" /\ pc' # pc) \/ WaitStep

\* the step in which libpulse invokes the connection state callback
ContextCallbackStep == cbs # <<>> /\ Head(cbs) = "context" /\ cbs' = Tail(cbs)

\* the step in which pa_stream_write reports a failure
FailedWriteStep == pc = "write" /\ it'.wcount = it.wcount + 1 /\ it'.wret # 0

\* C11 as claimed: no step of the IO thread writes the connected flag
C11_ConnectedOnlyMainLoop == [][ThreadStep => connected' = connected]_vars

\* C11 as amended: the IO thread writes the connected flag only to set it,
\* when the poll or the wait of the failure path dispatches PASS_SOCKET; the
\* main loop only clears it
C11_ConnectedWriters ==
    [][connected' # connected =>
          IF ThreadStep
          THEN /\ DispatchStep \/ WaitStep
               /\ Head(inq).code = "PASS_SOCKET"
               /\ connected'
          ELSE ~connected']_vars

C11_Witness ==
    /\ connected
    /\ Handled
    /\ msg.code = "PASS_SOCKET"
    /\ ~ctxLost
    /\ pc = "loop"

\* C12 as claimed: no step of the IO thread changes the connection, the
\* stream or their states
C12_ThreadOnlyReads ==
    [][ThreadStep => UNCHANGED <<context, ctxState, stream, strState>>]_vars

\* C12 as amended: the IO thread never changes the connection handle, the
\* stream handle or the connection state; the only change it makes to the
\* stream is to uncork it
C12_HandlesOwnedByMainLoop ==
    [][ThreadStep =>
          /\ UNCHANGED <<context, ctxState, stream>>
          /\ (strState' # strState =>
                 pc = "branch" /\ strState = "CORKED" /\ strState' = "RUNNING")]_vars

C12_Witness ==
    /\ it.uncork
    /\ strState = "RUNNING"
    /\ stream # "NULL"
    /\ context # "NULL"
    /\ ctxState = "READY"

\* C13: a failed poll posts exactly one unload request and then only waits,
\* without draining a rewind request, uncorking, rendering or writing;
\* a poll returning 0 ends the thread without a request; any other poll
\* starts the next iteration
C13_PollOutcomes ==
    /\ [](pc = "fail_wait" => outq = 1)
    /\ [](pc \in {"finish", "done"} => outq = IF msg.failpath THEN 1 ELSE 0)
    /\ [][pc = "poll" /\ pc' # pc =>
            \/ pc' = "loop" /\ outq' = outq
            \/ pc' = "finish" /\ outq' = outq
            \/ pc' = "fail_wait" /\ outq' = outq + 1
            \/ pc' \in CrashOutcomes /\ outq' = outq]_vars
    /\ [][pc = "fail_wait" =>
            /\ UNCHANGED <<it, render_count, memchunk, blocks, outq>>
            /\ (rewind_requested => rewind_requested')
            /\ pc' \in {"fail_wait", "finish"} \cup CrashOutcomes]_vars

C13_Witness == pc = "fail_wait" /\ outq = 1 /\ render_count >= 1

\* C14: an iteration that finds the stream corked uncorks it and neither
\* queries the writable size nor renders nor writes
C14_UncorkSendsNoData ==
    /\ [](it.uncork =>
            /\ it.cap = -1 /\ it.render = 0 /\ it.wcount = 0
            /\ pc \notin {"query", "write"})
    /\ [][pc = "branch" /\ pc' # pc /\ stream # "NULL" /\ strState = "CORKED" =>
            it'.uncork /\ strState' = "RUNNING" /\ pc' = "poll"]_vars
    /\ [][pc = "write" /\ pc' = "poll" => ~it.uncork /\ strState # "CORKED"]_vars

C14_Witness ==
    /\ it.uncork
    /\ it.branch
    /\ pc = "poll"
    /\ it.cap = -1
    /\ render_count = 0

\* C15: the size requested from pa_sink_render is the writable size of the
\* same iteration, and the single write of an iteration is not larger
C15_RenderSize ==
    /\ (it.render > 0 => it.req = it.cap)
    /\ (it.wcount > 0 => it.wcount = 1 /\ it.write > 0 /\ it.write <= it.cap)
    /\ (pc = "write" => memchunk.length > 0 /\ memchunk.length <= writeable)

C15_Witness ==
    /\ pc = "poll"
    /\ it.wcount = 1
    /\ it.cap = MaxWritable
    /\ it.req = MaxWritable
    /\ it.write = MaxWritable

\* C16 as claimed: there is a stream handle only while the connection handle
\* is there and the connection is ready
C16_StreamOnlyWhileReady ==
    stream # "NULL" => context # "NULL" /\ ctxState = "READY"

\* the step in which libpulse invokes the stream state callback
StreamCallbackStep == cbs # <<>> /\ Head(cbs) = "stream" /\ cbs' = Tail(cbs)

\* C16 as amended: the stream handle is set only by the connection callback
\* for READY, with the connection handle present; the connection callback for
\* FAILED or TERMINATED clears the connection handle and leaves the stream
\* handle; the stream handle is cleared only by the stream callback for
\* FAILED or TERMINATED, which always clears it, or by pa__done
C16_StreamLifecycle ==
    /\ [](streams_created = 0 => stream = "NULL")
    /\ [][(stream = "NULL" /\ stream' # "NULL") =>
            /\ ContextCallbackStep
            /\ ctxState = "READY"
            /\ context # "NULL" /\ context' # "NULL"]_vars
    /\ [][(ContextCallbackStep /\ ctxState \in {"FAILED", "TERMINATED"}) =>
            /\ context' = "NULL"
            /\ UNCHANGED <<stream, strState>>]_vars
    /\ [][(stream # "NULL" /\ stream' = "NULL") =>
            \/ StreamCallbackStep /\ strState \in {"FAILED", "TERMINATED"}
            \/ mpc # "freed" /\ mpc' = "freed"]_vars
    /\ [][(StreamCallbackStep /\ strState \in {"FAILED", "TERMINATED"}) =>
            stream' = "NULL"]_vars

C16_Witness ==
    /\ stream # "NULL"
    /\ context = "NULL"
    /\ ctxLost
    /\ PA_STREAM_IS_GOOD(strState)

\* C17: the callback creates one stream and then posts one PASS_SOCKET for
\* READY, does nothing for the transient states, the stream starts corked,
\* and connected is only set once a stream has been created
C17_ReadyOrdering ==
    /\ [][ContextCallbackStep /\ ctxState = "READY" =>
            /\ stream = "NULL" /\ stream' = "stream"
            /\ strState' = "CREATED"
            /\ streams_created' = streams_created + 1
            /\ inq' = Append(inq, Message("PASS_SOCKET", 0, FALSE))]_vars
    /\ [][ContextCallbackStep /\ ctxState \in {"UNCONNECTED", "CONNECTING",
                                              "AUTHORIZING", "SETTING_NAME"} =>
            UNCHANGED <<stream, strState, streams_created, inq, connected>>]_vars
    /\ [][strState = "CREATED" /\ strState' # strState =>
            strState' \in {"CORKED", "FAILED", "TERMINATED"}]_vars
    /\ [](connected => streams_created >= 1)

C17_Witness ==
    /\ connected
    /\ streams_created = 1
    /\ stream # "NULL"
    /\ strState = "CREATED"

\* C18: a failed write is not repeated in its iteration, changes neither the
\* connected flag nor the handles, posts no unload request and is followed by
\* the poll; later iterations with a writable size > 0 render and write again
C18_WriteFailure ==
    /\ [][FailedWriteStep =>
            /\ pc' = "poll"
            /\ memchunk' = EmptyChunk
            /\ UNCHANGED <<connected, context, ctxState, stream, strState,
                           outq>>]_vars
    /\ [](it.wcount <= 1)
    /\ [](wfail /\ pc = "poll" /\ it.cap > 0 => it.render = 1 /\ it.wcount = 1)

C18_Witness ==
    /\ wfail
    /\ pc = "poll"
    /\ it.wcount = 1
    /\ it.wret = 0
    /\ outq = 0
    /\ connected

\* C19: the IO thread never calls a stream function with a NULL u->stream
\* (such a call ends the process)
C19_NoNullStream == ~Crashed

\* C20: when there is an IO thread, pa__done frees the queues, the stream,
\* the connection, the poller, the chunk and the sink only after the shutdown
\* message has been handled and thread_func has returned; the IO thread takes
\* no step afterwards
C20_TeardownOrder ==
    /\ [](mpc \in {"joined", "freed"} /\ pc # "unstarted" =>
            pc = "done" /\ msg.code = "SHUTDOWN" /\ inq = <<>>)
    /\ [][(mpc \in {"joined", "freed"}) => ~ThreadStep]_vars

C20_Witness ==
    /\ mpc = "freed"
    /\ pc = "done"
    /\ render_count >= 1
    /\ stream = "NULL"
    /\ context = "NULL"
====
